---- MODULE Spec2Model ----
(***************************************************************************)
(* Offline-first synchronisation layer of the DGAT frontend, as given in   *)
(* frontend/docs/frontend_Arc_Document.md: the Dexie tables                *)
(* (db.organizations, db.sync_queue), the useAddOrganization mutation      *)
(* hook, the organizationRepository and SyncService.processQueue/start.    *)
(* Every `await` of the code is a suspension point: the model has one      *)
(* action per continuation between two awaits.                             *)
(***************************************************************************)
EXTENDS Integers, Sequences, FiniteSets, TLC

\* Bounds of the model.
MaxOrgs == 2     \* number of client-generated ids (uuidv4 values) available
MaxQueue == 3    \* number of ids the ++id key of sync_queue hands out
MaxRuns == 2     \* processQueue activations that can be suspended at once
MaxHistory == 3  \* entries of the browser history of the router
RetryCeiling == 2  \* the configured ceiling of failed attempts of one item

Ids == 1..MaxOrgs
Names == {"Acme"}      \* the names the form creates an organization with
Changes == {"Beta"}    \* the names an update changes it to
Slots == 1..MaxRuns

\* Messages of the errors a remote call rejects with (axios): a network or
\* 5xx failure, and a 4xx rejection by the remote API.
NetworkError == "Network Error"
Rejected4xx == "Request failed with status code 4xx"
ErrorMessages == {NetworkError, Rejected4xx}
\* The message of a rejected IndexedDB request.
StorageError == "QuotaExceededError"
\* The error of a push that found the remote copy newer than its baseline.
ConflictError == "ConflictError"

VARIABLES
  onLine,         \* navigator.onLine
  started,        \* SyncService.start() has registered the timer and listener
  isSyncing,      \* SyncService.isSyncing
  organizations,  \* db.organizations: id -> Organization
  sync_queue,     \* db.sync_queue: SyncQueueItems in primary-key order
  nextId,         \* the next value of the ++id key of sync_queue
  clock,          \* source of new Date().toISOString()
  usedIds,        \* uuids handed out so far
  mutations,      \* useAddOrganization calls between mutationFn and onSuccess
  runs,           \* activation frames of processQueue, one per slot
  sent,           \* history: queue ids for which a remote call was issued
  counting,       \* whether the history below is being recorded
  failures,       \* history: queue id -> number of rejected remote calls of
                  \* that item, counted up to RetryCeiling
  acked,          \* history: queue items whose remote call returned 2xx
  remote,         \* the remote API: ids of the organizations it holds
  remoteNewer,    \* ids whose remote copy another client changed after the
                  \* queued local update of that id was made
  overwritten,    \* history: ids whose newer remote copy a push replaced
  everOnline,     \* history: navigator.onLine has been true at some time
  returned,       \* history: the latest step, if it was a call that returned
                  \* early ("processQueue", "NotFound"), a read ("getAll")
                  \* or a processQueue whose promise rejected on a write
                  \* ("rejected") or on its read ("rejectedRead"), else
                  \* "none"
  isLoading,      \* AuthProvider: useState(true)
  isAuthenticated,\* AuthProvider: useState(false)
  session,        \* Keycloak: the browser has a single-sign-on session
  history,        \* react-router: the history stack, current location last
  rendered        \* what AppRoutes renders at the current location

vars == <<onLine, started, isSyncing, organizations, sync_queue, nextId, clock,
          usedIds, mutations, runs, sent, counting, failures, acked,
          remote, remoteNewer, overwritten, everOnline, returned,
          isLoading, isAuthenticated, session, history, rendered>>

\* A suspended or idle activation of processQueue: where it waits (pc), the
\* array toArray() returned (queueItems), the index of the for-of loop, and
\* two history fields: the ids pushed by this activation, in order, and
\* whether every push of it returned 2xx so far.
IdleRun == [pc |-> "idle", queueItems |-> <<>>, i |-> 0, error |-> "",
            pushed |-> <<>>, allOk |-> TRUE]

Active(s) == runs[s].pc # "idle"

\* The item the for-of loop of activation s is at.
item(s) == runs[s].queueItems[runs[s].i]

------------------------------------------------------------------------------
\* Dexie tables

\* Variant: the key is the position of the new row in the table.
QueueAddByPosition(q, action, payload) ==
  Append(q, [id |-> Len(q) + 1, entity |-> "organization", action |-> action,
             payload |-> payload, retries |-> 0, error |-> ""])

\* db.sync_queue.add(item): the ++id key assigns the next number.
QueueAdd(q, action, payload) ==
  Append(q, [id |-> nextId, entity |-> "organization", action |-> action,
             payload |-> payload, retries |-> 0, error |-> ""])

\* Variant: a delete of an absent key removes the oldest row.
QueueDeleteOrOldest(q, key) ==
  IF key \in {q[k].id : k \in 1..Len(q)}
    THEN SelectSeq(q, LAMBDA it : it.id # key)
    ELSE SubSeq(q, 2, Len(q))

\* db.sync_queue.delete(key): removes the row with that key, if any.
QueueDelete(q, key) == SelectSeq(q, LAMBDA it : it.id # key)

\* Variant: the failure handler drops the row instead of marking it.
QueueUpdateErrorDrops(q, key, msg) == QueueDelete(q, key)

\* db.sync_queue.update(key, {error}): changes the row with that key, if any.
QueueUpdateError(q, key, msg) ==
  [k \in 1..Len(q) |-> IF q[k].id = key THEN [q[k] EXCEPT !.error = msg] ELSE q[k]]

\* db.sync_queue.toArray(): the rows in primary-key order.
ToArray(q) == q

QueueIds(q) == {q[k].id : k \in 1..Len(q)}

\* The rows of the queue that concern entity e.
ItemsFor(q, e) == {k \in 1..Len(q) : q[k].payload.id = e}

\* organizationRepository.add(org): db.organizations.add.
RepoAdd(orgs, org) == (org.id :> org) @@ orgs

\* A status write that leaves the row as it is.
RepoUpdateStatusLost(orgs, id, status) == orgs

\* organizationRepository.update(id, changes) with changes = {syncStatus}:
\* db.organizations.update changes the row if present and nothing otherwise.
RepoUpdateStatus(orgs, id, status) ==
  IF id \in DOMAIN orgs
    THEN [orgs EXCEPT ![id] = [@ EXCEPT !.syncStatus = status]]
    ELSE orgs

\* organizationRepository.delete(id): db.organizations.delete.
RepoDelete(orgs, id) == [e \in DOMAIN orgs \ {id} |-> orgs[e]]

------------------------------------------------------------------------------
\* The router and the authentication context.

routerVars == <<isLoading, isAuthenticated, session, history, rendered>>

syncVars == <<onLine, started, isSyncing, organizations, sync_queue, nextId,
              clock, usedIds, mutations, runs, sent, counting, failures, acked,
              remote, remoteNewer, overwritten, everOnline, returned>>

\* The paths a user can ask for: ROUTES.LOGIN, ROUTES.DASHBOARD,
\* ROUTES.USERS.LIST, and ROUTES.HOME, which no route matches.
LOGIN == "/login"
DASHBOARD == "/dashboard"
Protected == {DASHBOARD, "/users"}
Paths == {"/", LOGIN} \cup Protected

\* <Navigate to={to} replace />
Navigate(to) == [element |-> "Navigate", to |-> to]
\* The Loader2 spinner.
Loader == [element |-> "Loader", to |-> ""]
\* <Outlet />: the nested route is rendered.
Outlet == [element |-> "Outlet", to |-> ""]
\* The page of a route.
Page(path) == [element |-> "Page", to |-> path]

\* Variant: the guard does not wait for the authentication to load.
ProtectedRouteNoWait(loading, authenticated) ==
  IF authenticated THEN Outlet ELSE Navigate(LOGIN)

\* ProtectedRoute, with the values useAuth() returns.
ProtectedRoute(loading, authenticated) ==
  IF loading THEN Loader
  ELSE IF ~authenticated THEN Navigate(LOGIN)
  ELSE Outlet

\* The ProtectedRoute of the authentication guide, written with a
\* conditional expression.
ProtectedRouteTernary(loading, authenticated) ==
  IF loading THEN Loader
  ELSE IF authenticated THEN Outlet ELSE Navigate(LOGIN)

\* AppRoutes at a location: the public login route, the routes nested in
\* ProtectedRoute, and the fallback route.
AppRoutes(path, loading, authenticated) ==
  IF path = LOGIN THEN Page(LOGIN)
  ELSE IF path \in Protected
    THEN IF ProtectedRoute(loading, authenticated) = Outlet
           THEN Page(path)
           ELSE ProtectedRoute(loading, authenticated)
  ELSE Navigate(DASHBOARD)

location == history[Len(history)]

\* The application has been loaded at "/": the authentication is loading.
RouterInit ==
  /\ isLoading = TRUE
  /\ isAuthenticated = FALSE
  /\ session = FALSE
  /\ history = <<"/">>
  /\ rendered = AppRoutes("/", TRUE, FALSE)

------------------------------------------------------------------------------
Init ==
  /\ onLine \in BOOLEAN
  /\ started = FALSE
  /\ isSyncing = FALSE
  /\ organizations = << >>
  /\ sync_queue = << >>
  /\ nextId = 1
  /\ clock = 1
  /\ usedIds = {}
  /\ mutations = {}
  /\ runs = [s \in Slots |-> IdleRun]
  /\ sent = {}
  /\ counting = FALSE
  /\ failures = [q \in 1..MaxQueue |-> 0]
  /\ acked = {}
  /\ remote = {}
  /\ remoteNewer = {}
  /\ overwritten = {}
  /\ everOnline = onLine
  /\ returned = "none"
  /\ RouterInit

------------------------------------------------------------------------------
\* UI write path

\* uuidv4(): an id never handed out before.
NewId == CHOOSE e \in Ids \ usedIds : \A f \in Ids \ usedIds : e <= f

\* Every hook call below ends in one sync_queue.add: the ++id key has room.
QueueHasRoom == nextId + Cardinality(mutations) <= MaxQueue

\* The entities the UI lists: useOrganizations is invalidated by onSuccess, so
\* a new organization is shown once its mutation has run onSuccess.
Listed == DOMAIN organizations \ {m.data.id : m \in mutations}

\* Variant: the new organization is stored as already synced.
NewOrgSynced(name) ==
  [id |-> NewId, name |-> name, syncStatus |-> "synced", lastModified |-> clock]

\* The Organization that mutationFn builds from its argument.
NewOrg(name) ==
  [id |-> NewId, name |-> name, syncStatus |-> "pending", lastModified |-> clock]

\* A create that posts the new organization to the remote API itself.
mutationFnRemote(name) ==
  /\ usedIds # Ids
  /\ QueueHasRoom
  /\ onLine
  /\ organizations' = RepoAdd(organizations, NewOrg(name))
  /\ remote' = remote \cup {NewId}
  /\ mutations' = mutations \cup {[variables |-> name, data |-> NewOrg(name)]}
  /\ usedIds' = usedIds \cup {NewId}
  /\ clock' = clock + 1
  /\ returned' = "none"
  /\ UNCHANGED <<onLine, started, isSyncing, sync_queue, nextId, runs, sent,
                 acked, everOnline,
                 counting, failures,
                 remoteNewer, overwritten,
                 routerVars>>

\* useAddOrganization, mutationFn(name): builds newOrg and awaits
\* organizationRepository.add(newOrg).
mutationFn(name) ==
  /\ usedIds # Ids
  /\ QueueHasRoom
  /\ organizations' = RepoAdd(organizations, NewOrg(name))
  /\ mutations' = mutations \cup {[variables |-> name, data |-> NewOrg(name)]}
  /\ usedIds' = usedIds \cup {NewId}
  /\ clock' = clock + 1
  /\ returned' = "none"
  /\ UNCHANGED <<onLine, started, isSyncing, sync_queue, nextId, runs, sent,
                 acked, remote, everOnline,
                 counting, failures,
                 remoteNewer, overwritten,
                 routerVars>>

\* useAddOrganization, onSuccess(newOrg): db.sync_queue.add of the create.
onSuccess(m) ==
  /\ m \in mutations
  /\ sync_queue' = QueueAdd(sync_queue, "create", m.data)
  /\ nextId' = nextId + 1
  /\ mutations' = mutations \ {m}
  /\ returned' = "none"
  /\ UNCHANGED <<onLine, started, isSyncing, organizations, clock, usedIds,
                 runs, sent, acked, remote, everOnline,
                 counting, failures,
                 remoteNewer, overwritten,
                 routerVars>>

\* A merge that leaves the syncStatus of the entity as it is.
MergedKeepsStatus(org, name) ==
  [org EXCEPT !.name = name, !.lastModified = clock]

\* The entity after update(id, changes): changes merged, status pending,
\* lastModified bumped.
Merged(org, name) ==
  [org EXCEPT !.name = name, !.syncStatus = "pending", !.lastModified = clock]

\* An update that enqueues its item even when the id is unknown.
RepositoryUpdateBlind(e, name) ==
  /\ QueueHasRoom
  /\ e \in DOMAIN organizations => e \in Listed
  /\ IF e \in DOMAIN organizations
       THEN /\ organizations' = [organizations EXCEPT ![e] = Merged(@, name)]
            /\ sync_queue' = QueueAdd(sync_queue, "update", Merged(organizations[e], name))
            /\ returned' = "none"
       ELSE /\ organizations' = organizations
            /\ sync_queue' = QueueAdd(sync_queue, "update", [id |-> e, name |-> name])
            /\ returned' = "NotFound"
  /\ nextId' = nextId + 1
  /\ clock' = clock + 1
  /\ UNCHANGED <<onLine, started, isSyncing, usedIds, mutations, runs, sent,
                 acked, remote, everOnline,
                 counting, failures,
                 remoteNewer, overwritten,
                 routerVars>>

\* update(id, changes) of the write path: the merged entity is written and an
\* update item with the merged payload is enqueued, in one transaction; an
\* unknown id fails with NotFound.
RepositoryUpdate(e, name) ==
  /\ e \in DOMAIN organizations => e \in Listed /\ QueueHasRoom
  /\ IF e \in DOMAIN organizations
       THEN /\ organizations' = [organizations EXCEPT ![e] = Merged(@, name)]
            /\ sync_queue' = QueueAdd(sync_queue, "update", Merged(organizations[e], name))
            /\ nextId' = nextId + 1
            /\ clock' = clock + 1
            /\ returned' = "none"
       ELSE /\ returned' = "NotFound"
            /\ UNCHANGED <<organizations, sync_queue, nextId, clock>>
  /\ UNCHANGED <<onLine, started, isSyncing, usedIds, mutations, runs, sent,
                 acked, remote, everOnline,
                 counting, failures,
                 remoteNewer, overwritten,
                 routerVars>>

\* A delete that removes the row and enqueues nothing.
RepositoryDeleteLocalOnly(e) ==
  /\ e \in DOMAIN organizations => e \in Listed /\ QueueHasRoom
  /\ IF e \in DOMAIN organizations
       THEN /\ organizations' = RepoDelete(organizations, e)
            /\ returned' = "none"
       ELSE /\ returned' = "NotFound"
            /\ UNCHANGED organizations
  /\ UNCHANGED <<onLine, started, isSyncing, sync_queue, nextId, clock, usedIds,
                 mutations, runs, sent, acked, remote, everOnline,
                 counting, failures,
                 remoteNewer, overwritten,
                 routerVars>>

\* delete(id) of the write path: the row is removed
\* (organizationRepository.delete) and a delete item carrying the id is
\* enqueued, in one transaction; an unknown id fails with NotFound.
RepositoryDelete(e) ==
  /\ e \in DOMAIN organizations => e \in Listed /\ QueueHasRoom
  /\ IF e \in DOMAIN organizations
       THEN /\ organizations' = RepoDelete(organizations, e)
            /\ sync_queue' = QueueAdd(sync_queue, "delete", [id |-> e])
            /\ nextId' = nextId + 1
            /\ returned' = "none"
       ELSE /\ returned' = "NotFound"
            /\ UNCHANGED <<organizations, sync_queue, nextId>>
  /\ UNCHANGED <<onLine, started, isSyncing, clock, usedIds, mutations, runs,
                 sent, acked, remote, everOnline,
                 counting, failures,
                 remoteNewer, overwritten,
                 routerVars>>

\* useOrganizations, queryFn: organizationRepository.getAll(), that is
\* db.organizations.toArray(); a read.
getAll ==
  /\ returned' = "getAll"
  /\ UNCHANGED <<onLine, started, isSyncing, organizations, sync_queue, nextId,
                 clock, usedIds, mutations, runs, sent, acked, remote,
                 everOnline, counting, failures, remoteNewer, overwritten,
                 routerVars>>

------------------------------------------------------------------------------
\* Connectivity

GoOnline ==
  /\ ~onLine
  /\ onLine' = TRUE
  /\ everOnline' = TRUE
  /\ returned' = "none"
  /\ UNCHANGED <<started, isSyncing, organizations, sync_queue, nextId, clock,
                 usedIds, mutations, runs, sent, acked, remote,
                 counting, failures,
                 remoteNewer, overwritten,
                 routerVars>>

GoOffline ==
  /\ onLine
  /\ onLine' = FALSE
  /\ returned' = "none"
  /\ UNCHANGED <<started, isSyncing, organizations, sync_queue, nextId, clock,
                 usedIds, mutations, runs, sent, acked, remote, everOnline,
                 counting, failures,
                 remoteNewer, overwritten,
                 routerVars>>

------------------------------------------------------------------------------
\* SyncService

\* Variant: the guard without the re-entrancy flag.
SkipOfflineOnly == ~onLine

\* Variant: the guard without the connectivity test.
SkipBusyOnly == isSyncing

\* The guard of processQueue: `if (this.isSyncing || !navigator.onLine) return`.
Skip == isSyncing \/ ~onLine

\* Variant: the flag is raised before connectivity is tested.
processQueueFlagFirst ==
  IF isSyncing
    THEN /\ returned' = "processQueue"
         /\ UNCHANGED <<isSyncing, runs>>
    ELSE IF ~onLine
      THEN /\ returned' = "processQueue"
           /\ isSyncing' = TRUE
           /\ UNCHANGED runs
      ELSE \E s \in Slots :
             /\ ~Active(s)
             /\ \A u \in Slots : u < s => Active(u)
             /\ isSyncing' = TRUE
             /\ runs' = [runs EXCEPT ![s] = [IdleRun EXCEPT !.pc = "toArray"]]
             /\ returned' = "none"

\* The first part of processQueue, up to `await db.sync_queue.toArray()`.
\* JavaScript runs it without interruption.
processQueue ==
  IF Skip
    THEN /\ returned' = "processQueue"
         /\ UNCHANGED <<isSyncing, runs>>
    ELSE \E s \in Slots :
           /\ ~Active(s)
           /\ \A u \in Slots : u < s => Active(u)
           /\ isSyncing' = TRUE
           /\ runs' = [runs EXCEPT ![s] = [IdleRun EXCEPT !.pc = "toArray"]]
           /\ returned' = "none"

\* start(): registers the timer and the listener, then the initial run.
start ==
  /\ ~started
  /\ started' = TRUE
  /\ processQueue
  /\ UNCHANGED <<onLine, organizations, sync_queue, nextId, clock, usedIds,
                 mutations, sent, acked, remote, everOnline,
                 counting, failures,
                 remoteNewer, overwritten,
                 routerVars>>

\* setInterval(() => this.processQueue(), 30000)
timer ==
  /\ started
  /\ processQueue
  /\ UNCHANGED <<onLine, started, organizations, sync_queue, nextId, clock,
                 usedIds, mutations, sent, acked, remote, everOnline,
                 counting, failures,
                 remoteNewer, overwritten,
                 routerVars>>

\* window.addEventListener("online", () => this.processQueue()): the listener
\* runs at some time after the browser went online.
online ==
  /\ started
  /\ onLine
  /\ processQueue
  /\ UNCHANGED <<onLine, started, organizations, sync_queue, nextId, clock,
                 usedIds, mutations, sent, acked, remote, everOnline,
                 counting, failures,
                 remoteNewer, overwritten,
                 routerVars>>

\* Variant: the loop also takes the rows added to the table since the read.
LoopHeadLive(s, r, k) ==
  LET batch == r.queueItems \o
                 SelectSeq(sync_queue,
                           LAMBDA it : /\ r.queueItems # << >>
                                       /\ \A n \in 1..Len(r.queueItems) :
                                            r.queueItems[n].id < it.id)
  IN IF k <= Len(batch)
       THEN /\ runs' = [runs EXCEPT ![s] =
                          [r EXCEPT !.queueItems = batch,
                                    !.pc = "api", !.i = k, !.error = "",
                                    !.pushed = Append(@, batch[k].id)]]
            /\ sent' = sent \cup {batch[k].id}
            /\ isSyncing' = isSyncing
       ELSE /\ runs' = [runs EXCEPT ![s] = IdleRun]
            /\ sent' = sent
            /\ isSyncing' = FALSE

\* Variant: the flag is lowered as soon as a call has been issued.
LoopHeadReleases(s, r, k) ==
  IF k <= Len(r.queueItems)
    THEN /\ runs' = [runs EXCEPT ![s] =
                       [r EXCEPT !.pc = "api", !.i = k, !.error = "",
                                 !.pushed = Append(@, r.queueItems[k].id)]]
         /\ sent' = sent \cup {r.queueItems[k].id}
         /\ isSyncing' = FALSE
    ELSE /\ runs' = [runs EXCEPT ![s] = IdleRun]
         /\ sent' = sent
         /\ isSyncing' = FALSE

\* The head of the for-of loop for activation s with frame r at index k: the
\* remote call for item k is issued (handler.api.create/update/delete), or,
\* past the last item, `this.isSyncing = false` ends the activation.
LoopHead(s, r, k) ==
  IF k <= Len(r.queueItems)
    THEN /\ runs' = [runs EXCEPT ![s] =
                       [r EXCEPT !.pc = "api", !.i = k, !.error = "",
                                 !.pushed = Append(@, r.queueItems[k].id)]]
         /\ sent' = sent \cup {r.queueItems[k].id}
         /\ isSyncing' = isSyncing
    ELSE /\ runs' = [runs EXCEPT ![s] = IdleRun]
         /\ sent' = sent
         /\ isSyncing' = FALSE

\* `await db.sync_queue.toArray()` returns: the early return on an empty
\* queue, or the first iteration of the loop.
toArrayDone(s) ==
  /\ runs[s].pc = "toArray"
  /\ LoopHead(s, [runs[s] EXCEPT !.queueItems = ToArray(sync_queue)], 1)
  /\ returned' = "none"
  /\ UNCHANGED <<onLine, started, organizations, sync_queue, nextId, clock,
                 usedIds, mutations, acked, remote, everOnline,
                 counting, failures,
                 remoteNewer, overwritten,
                 routerVars>>

\* The awaited statement after a successful remote call: repo.update for a
\* create or an update, db.sync_queue.delete for a delete.
AfterPush(action) == IF action # "delete" THEN "repoUpdate" ELSE "queueDelete"

\* The remote API (REST): POST of an id it holds, and PUT or DELETE of an id
\* it does not hold, are answered 4xx; every other request it serves.
Accepts(it) ==
  IF it.action = "create" THEN it.payload.id \notin remote
                          ELSE it.payload.id \in remote

\* The effect of a served request on the remote API.
Served(it) ==
  CASE it.action = "create" -> remote \cup {it.payload.id}
    [] it.action = "update" -> remote
    [] it.action = "delete" -> remote \ {it.payload.id}

\* A push that compares the remote copy with its baseline first.
apiResolvedChecked(s) ==
  /\ runs[s].pc = "api"
  /\ onLine
  /\ Accepts(item(s))
  /\ IF item(s).action = "update" /\ item(s).payload.id \in remoteNewer
       THEN /\ runs' = [runs EXCEPT ![s].pc = "queueUpdate",
                                    ![s].error = ConflictError,
                                    ![s].allOk = FALSE]
            /\ UNCHANGED <<remote, remoteNewer, overwritten, acked>>
       ELSE /\ remote' = Served(item(s))
            /\ remoteNewer' = remoteNewer \ {item(s).payload.id}
            /\ overwritten' = overwritten
            /\ acked' = acked \cup {[id |-> item(s).id,
                                     action |-> item(s).action,
                                     payload |-> item(s).payload]}
            /\ runs' = [runs EXCEPT ![s].pc = AfterPush(item(s).action)]
  /\ returned' = "none"
  /\ UNCHANGED <<onLine, started, isSyncing, organizations, sync_queue, nextId,
                 clock, usedIds, mutations, sent, everOnline,
                 counting, failures,
                 routerVars>>

\* The remote call of the current item returns 2xx.
apiResolved(s) ==
  /\ runs[s].pc = "api"
  /\ onLine
  /\ Accepts(item(s))
  /\ remote' = Served(item(s))
  /\ remoteNewer' = remoteNewer \ {item(s).payload.id}
  /\ overwritten' = overwritten \cup ({item(s).payload.id} \cap remoteNewer)
  /\ acked' = acked \cup {[id |-> item(s).id, action |-> item(s).action,
                           payload |-> item(s).payload]}
  /\ runs' = [runs EXCEPT ![s].pc = AfterPush(item(s).action)]
  /\ returned' = "none"
  /\ UNCHANGED <<onLine, started, isSyncing, organizations, sync_queue, nextId,
                 clock, usedIds, mutations, sent, everOnline,
                 counting, failures,
                 routerVars>>

\* One more rejected call in the history count of queue item q.
CountUp(f, q) ==
  [f EXCEPT ![q] = IF @ < RetryCeiling THEN @ + 1 ELSE @]

\* The remote call of the current item rejects: the catch block issues
\* db.sync_queue.update(item.id, {error: message}).
apiRejected(s, msg) ==
  /\ runs[s].pc = "api"
  /\ msg = Rejected4xx => onLine /\ ~Accepts(item(s))
  /\ runs' = [runs EXCEPT ![s].pc = "queueUpdate", ![s].error = msg,
                          ![s].allOk = FALSE]
  /\ failures' = IF counting THEN CountUp(failures, item(s).id) ELSE failures
  /\ returned' = "none"
  /\ UNCHANGED <<onLine, started, isSyncing, organizations, sync_queue, nextId,
                 clock, usedIds, mutations, sent, acked, remote, everOnline,
                 counting,
                 remoteNewer, overwritten,
                 routerVars>>

\* Variant: the status write puts the queued payload back as a whole.
repoUpdateDonePut(s) ==
  /\ runs[s].pc = "repoUpdate"
  /\ organizations' =
       IF item(s).payload.id \in DOMAIN organizations
         THEN [organizations EXCEPT ![item(s).payload.id] =
                 [item(s).payload EXCEPT !.syncStatus = "synced"]]
         ELSE organizations
  /\ runs' = [runs EXCEPT ![s].pc = "queueDelete"]
  /\ returned' = "none"
  /\ UNCHANGED <<onLine, started, isSyncing, sync_queue, nextId, clock, usedIds,
                 mutations, sent, acked, remote, everOnline,
                 counting, failures,
                 remoteNewer, overwritten,
                 routerVars>>

\* `await handler.repo.update(item.payload.id, {syncStatus: "synced"})` returns.
repoUpdateDone(s) ==
  /\ runs[s].pc = "repoUpdate"
  /\ organizations' = RepoUpdateStatus(organizations, item(s).payload.id, "synced")
  /\ runs' = [runs EXCEPT ![s].pc = "queueDelete"]
  /\ returned' = "none"
  /\ UNCHANGED <<onLine, started, isSyncing, sync_queue, nextId, clock, usedIds,
                 mutations, sent, acked, remote, everOnline,
                 counting, failures,
                 remoteNewer, overwritten,
                 routerVars>>

\* `await db.sync_queue.delete(item.id)` returns; the loop goes on.
queueDeleteDone(s) ==
  /\ runs[s].pc = "queueDelete"
  /\ sync_queue' = QueueDelete(sync_queue, item(s).id)
  /\ LoopHead(s, runs[s], runs[s].i + 1)
  /\ returned' = "none"
  /\ UNCHANGED <<onLine, started, organizations, nextId, clock, usedIds,
                 mutations, acked, remote, everOnline,
                 counting, failures,
                 remoteNewer, overwritten,
                 routerVars>>

\* Variant: the failure handler leaves the loop after recording the error.
queueUpdateDoneBreaks(s) ==
  /\ runs[s].pc = "queueUpdate"
  /\ sync_queue' = QueueUpdateError(sync_queue, item(s).id, runs[s].error)
  /\ LoopHead(s, runs[s], Len(runs[s].queueItems) + 1)
  /\ returned' = "none"
  /\ UNCHANGED <<onLine, started, organizations, nextId, clock, usedIds,
                 mutations, acked, remote, everOnline,
                 counting, failures,
                 remoteNewer, overwritten,
                 routerVars>>

\* `await db.sync_queue.update(item.id, {error})` of the catch block returns;
\* the loop goes on.
queueUpdateDone(s) ==
  /\ runs[s].pc = "queueUpdate"
  /\ sync_queue' = QueueUpdateError(sync_queue, item(s).id, runs[s].error)
  /\ LoopHead(s, runs[s], runs[s].i + 1)
  /\ returned' = "none"
  /\ UNCHANGED <<onLine, started, organizations, nextId, clock, usedIds,
                 mutations, acked, remote, everOnline,
                 counting, failures,
                 remoteNewer, overwritten,
                 routerVars>>

------------------------------------------------------------------------------
\* Rejections of the Local Store (IndexedDB) inside a cycle.

\* `await handler.repo.update(...)` rejects: control goes to the catch block.
repoUpdateRejected(s) ==
  /\ runs[s].pc = "repoUpdate"
  /\ runs' = [runs EXCEPT ![s].pc = "queueUpdate", ![s].error = StorageError,
                          ![s].allOk = FALSE]
  /\ returned' = "none"
  /\ UNCHANGED <<onLine, started, isSyncing, organizations, sync_queue, nextId,
                 clock, usedIds, mutations, sent, acked, remote, everOnline,
                 counting, failures,
                 remoteNewer, overwritten,
                 routerVars>>

\* `await db.sync_queue.delete(item.id)` rejects: control goes to the catch
\* block.
queueDeleteRejected(s) ==
  /\ runs[s].pc = "queueDelete"
  /\ runs' = [runs EXCEPT ![s].pc = "queueUpdate", ![s].error = StorageError,
                          ![s].allOk = FALSE]
  /\ returned' = "none"
  /\ UNCHANGED <<onLine, started, isSyncing, organizations, sync_queue, nextId,
                 clock, usedIds, mutations, sent, acked, remote, everOnline,
                 counting, failures,
                 remoteNewer, overwritten,
                 routerVars>>

\* `await db.sync_queue.update(item.id, {error})` inside the catch block
\* rejects: nothing encloses it, the promise of processQueue rejects and
\* `this.isSyncing = false` is not reached.
queueUpdateRejected(s) ==
  /\ runs[s].pc = "queueUpdate"
  /\ runs' = [runs EXCEPT ![s] = IdleRun]
  /\ returned' = "rejected"
  /\ UNCHANGED <<onLine, started, isSyncing, organizations, sync_queue, nextId,
                 clock, usedIds, mutations, sent, acked, remote, everOnline,
                 counting, failures,
                 remoteNewer, overwritten,
                 routerVars>>

\* `await db.sync_queue.toArray()` rejects: it is outside the try block, the
\* promise of processQueue rejects and `this.isSyncing = false` is not reached.
toArrayRejected(s) ==
  /\ runs[s].pc = "toArray"
  /\ runs' = [runs EXCEPT ![s] = IdleRun]
  /\ returned' = "rejectedRead"
  /\ UNCHANGED <<onLine, started, isSyncing, organizations, sync_queue, nextId,
                 clock, usedIds, mutations, sent, acked, remote, everOnline,
                 counting, failures,
                 remoteNewer, overwritten,
                 routerVars>>

------------------------------------------------------------------------------
\* Another client changes the remote copy of e while a local update of e is
\* waiting in the queue: the remote copy is now newer than the baseline of
\* that update.
RemoteEdit(e) ==
  /\ e \in remote
  /\ \E n \in 1..Len(sync_queue) :
       sync_queue[n].action = "update" /\ sync_queue[n].payload.id = e
  /\ remoteNewer' = remoteNewer \cup {e}
  /\ returned' = "none"
  /\ UNCHANGED <<onLine, started, isSyncing, organizations, sync_queue, nextId,
                 clock, usedIds, mutations, runs, sent, counting, failures,
                 acked, remote, overwritten, everOnline,
                 routerVars>>

------------------------------------------------------------------------------
\* Steps of the router and the authentication context. React renders again
\* after every change of state or location.

\* kc.init({onLoad: "check-sso"}) resolves.
kcInit ==
  /\ isLoading
  /\ isAuthenticated' = session
  /\ isLoading' = FALSE
  /\ rendered' = AppRoutes(location, FALSE, session)
  /\ UNCHANGED <<session, history>>
  /\ UNCHANGED syncVars

\* The application is loaded again at a path: the provider starts over.
Reload(path) ==
  /\ isLoading' = TRUE
  /\ isAuthenticated' = FALSE
  /\ history' = <<path>>
  /\ rendered' = AppRoutes(path, TRUE, FALSE)

\* login(): keycloak.login() leaves the page for Keycloak, which comes back
\* to the location with a session.
login ==
  /\ ~isLoading
  /\ ~session
  /\ session' = TRUE
  /\ Reload(location)
  /\ UNCHANGED syncVars

\* logout(): keycloak.logout() ends the session and comes back.
logout ==
  /\ ~isLoading
  /\ session
  /\ session' = FALSE
  /\ Reload(location)
  /\ UNCHANGED syncVars

\* The user follows a link or enters a path.
navigate(path) ==
  /\ Len(history) < MaxHistory
  /\ path # location
  /\ history' = Append(history, path)
  /\ rendered' = AppRoutes(path, isLoading, isAuthenticated)
  /\ UNCHANGED <<isLoading, isAuthenticated, session>>
  /\ UNCHANGED syncVars

\* The effect of a rendered <Navigate replace />: the current entry of the
\* history is replaced by the target.
redirect ==
  /\ rendered.element = "Navigate"
  /\ history' = [history EXCEPT ![Len(history)] = rendered.to]
  /\ rendered' = AppRoutes(rendered.to, isLoading, isAuthenticated)
  /\ UNCHANGED <<isLoading, isAuthenticated, session>>
  /\ UNCHANGED syncVars

------------------------------------------------------------------------------
Next ==
  \/ \E name \in Names : mutationFn(name)
  \/ \E m \in mutations : onSuccess(m)
  \/ \E e \in Ids, name \in Changes : RepositoryUpdate(e, name)
  \/ \E e \in Ids : RepositoryDelete(e)
  \/ GoOnline
  \/ GoOffline
  \/ start
  \/ timer
  \/ online
  \/ \E s \in Slots : toArrayDone(s)
  \/ \E s \in Slots : apiResolved(s)
  \/ \E s \in Slots, msg \in ErrorMessages : apiRejected(s, msg)
  \/ \E s \in Slots : repoUpdateDone(s)
  \/ \E s \in Slots : queueDeleteDone(s)
  \/ \E s \in Slots : queueUpdateDone(s)

Spec == Init /\ [][Next]_vars

\* The same program with the failure history recorded.
InitCounting ==
  \E on \in BOOLEAN :
    /\ onLine = on
    /\ everOnline = on
    /\ started = FALSE
    /\ isSyncing = FALSE
    /\ organizations = << >>
    /\ sync_queue = << >>
    /\ nextId = 1
    /\ clock = 1
    /\ usedIds = {}
    /\ mutations = {}
    /\ runs = [s \in Slots |-> IdleRun]
    /\ sent = {}
    /\ counting = TRUE
    /\ failures = [q \in 1..MaxQueue |-> 0]
    /\ acked = {}
    /\ remote = {}
  /\ remoteNewer = {}
  /\ overwritten = {}
    /\ returned = "none"
    /\ RouterInit

SpecCounting == InitCounting /\ [][Next]_vars

\* The same program with the reads of the UI.
NextReads ==
  \/ Next
  \/ getAll

SpecReads == Init /\ [][NextReads]_vars

\* The same program with a second client of the remote API.
NextRemote ==
  \/ Next
  \/ \E e \in Ids : RemoteEdit(e)

SpecRemote == Init /\ [][NextRemote]_vars

\* The scheduling the browser guarantees: start() is called, the interval
\* timer keeps firing, a pending promise of an activation settles (a call
\* that reaches the remote API is answered, with 2xx or with 4xx), and the
\* onSuccess callback of a completed mutation runs.
Fairness ==
  /\ WF_vars(start)
  /\ WF_vars(timer)
  /\ WF_vars(\E m \in mutations : onSuccess(m))
  /\ \A s \in Slots :
       /\ WF_vars(toArrayDone(s))
       /\ WF_vars(apiResolved(s))
       /\ WF_vars(apiRejected(s, Rejected4xx))
       /\ WF_vars(repoUpdateDone(s))
       /\ WF_vars(queueDeleteDone(s))
       /\ WF_vars(queueUpdateDone(s))

SpecLive == Init /\ [][Next]_vars /\ Fairness

\* The router and the authentication context of the application.
NextRouter ==
  \/ kcInit
  \/ login
  \/ logout
  \/ \E path \in Paths : navigate(path)
  \/ redirect

SpecRouter == Init /\ [][NextRouter]_vars

\* The same program on a Local Store whose requests can reject.
NextFaults ==
  \/ Next
  \/ \E s \in Slots : repoUpdateRejected(s)
  \/ \E s \in Slots : queueDeleteRejected(s)
  \/ \E s \in Slots : queueUpdateRejected(s)
  \/ \E s \in Slots : toArrayRejected(s)

SpecFaults == Init /\ [][NextFaults]_vars

------------------------------------------------------------------------------
\* Properties

ActiveRuns == {s \in Slots : Active(s)}

\* The ids of a sequence of queue items, in order.
IdsOf(q) == [k \in 1..Len(q) |-> q[k].id]

Ascending(ids) == \A j, k \in 1..Len(ids) : j < k => ids[j] < ids[k]

\* C1: an entity with an outstanding Sync Queue item has syncStatus pending or
\* error, never synced, in every reachable state.
C1_QueuedNeverSynced ==
  \A e \in DOMAIN organizations :
    ItemsFor(sync_queue, e) # {} =>
      organizations[e].syncStatus \in {"pending", "error"}

\* C2: the update of an entity is sent to the remote API only after the create
\* of that entity has succeeded remotely.
C2_UpdateAfterCreate ==
  \A s \in Slots :
    (runs[s].pc = "api" /\ item(s).action = "update") =>
      \E a \in acked : a.action = "create" /\ a.payload.id = item(s).payload.id

\* C3: at most one drain cycle is active at any time, and a processQueue call
\* that arrives while a cycle is running starts no cycle and processes nothing.
C3_OneCycle ==
  [][ /\ Cardinality(ActiveRuns') <= 1
      /\ ActiveRuns # {} =>
           /\ ActiveRuns' \subseteq ActiveRuns
           /\ returned' = "processQueue" => UNCHANGED <<runs, sent, sync_queue>>
    ]_vars

C3_Witness ==
  /\ returned = "processQueue"
  /\ onLine
  /\ \E s \in Slots : runs[s].pc = "api"

\* C4: a Sync Queue item leaves the queue only after the remote call for that
\* exact item (same id, action and payload) has returned successfully.
C4_RemovedOnlyAcked ==
  [][ \A k \in 1..Len(sync_queue) :
        sync_queue[k].id \notin QueueIds(sync_queue') =>
          \E a \in acked : /\ a.id = sync_queue[k].id
                           /\ a.action = sync_queue[k].action
                           /\ a.payload = sync_queue[k].payload
    ]_vars

C4_Witness ==
  /\ \E a \in acked : a.id \notin QueueIds(sync_queue)
  /\ \E k \in 1..Len(sync_queue) : sync_queue[k].error # ""

\* C5: the Local Store write and the Sync Queue enqueue of a mutating call are
\* one atomic unit: no state shows a pending entity without its queue item.
C5_WriteEnqueueAtomic ==
  \A e \in DOMAIN organizations :
    organizations[e].syncStatus = "pending" => ItemsFor(sync_queue, e) # {}

\* C6: when a drain in which every push succeeded completes, an entity is
\* synced if and only if the Sync Queue holds no item for its id.
C6_SyncedIffDrained ==
  [][ \A s \in Slots :
        (Active(s) /\ ~Active(s)' /\ runs[s].allOk /\ runs[s].pushed # <<>>) =>
          \A e \in Listed' :
            organizations'[e].syncStatus = "synced" <=> ItemsFor(sync_queue', e) = {}
    ]_vars

C8_SkipIsNoOp ==
  [][ /\ Skip => \A s \in Slots : Active(s)' => Active(s)
      /\ returned' = "processQueue" =>
           /\ Skip
           /\ UNCHANGED <<sync_queue, organizations, isSyncing, sent, acked,
                          remote, runs, nextId>>
    ]_vars

C8_Witness ==
  /\ returned = "processQueue"
  /\ ~onLine
  /\ ~isSyncing
  /\ sync_queue # <<>>

\* C9: right after create(data), a local read of the new id returns data with
\* the assigned id and syncStatus pending.
C9_CreateThenRead ==
  \A m \in mutations :
    /\ m.data.id \in DOMAIN organizations
    /\ organizations[m.data.id].id = m.data.id
    /\ organizations[m.data.id].name = m.variables
    /\ organizations[m.data.id].syncStatus = "pending"

C9_Witness ==
  /\ mutations # {}
  /\ \E s \in Slots : Active(s)

\* C10: every failed push adds one to the retry counter of the item and
\* records the message on it: an item with a recorded failure has been
\* counted at least once.
C10_FailureCounted ==
  \A k \in 1..Len(sync_queue) :
    sync_queue[k].error # "" => sync_queue[k].retries >= 1


------------------------------------------------------------------------------
\* The queue ids an activation is handling at this moment.
InHand == {item(s).id : s \in {t \in Slots : runs[t].i > 0}}

\* The rows of the queue whose push has been rejected RetryCeiling times and
\* whose last rejection has been handled.
Exhausted == {n \in 1..Len(sync_queue) :
                /\ failures[sync_queue[n].id] >= RetryCeiling
                /\ sync_queue[n].id \notin InHand}

\* C11: once the pushes of a queue item have failed the configured number of
\* times, its entity's syncStatus is "error", the item is still in the queue,
\* and no later cycle issues a remote call for it.
C11_CeilingStopsRetry ==
  /\ \A n \in Exhausted :
       LET e == sync_queue[n].payload.id IN
         e \in DOMAIN organizations => organizations[e].syncStatus = "error"
  /\ \A s \in Slots :
       runs[s].pc = "api" => failures[item(s).id] < RetryCeiling


\* The rows of the queue that record a permanent rejection by the remote API
\* and are not being handled at this moment.
Permanent == {n \in 1..Len(sync_queue) :
                /\ sync_queue[n].error = Rejected4xx
                /\ sync_queue[n].id \notin InHand}

\* C12: an item the remote API rejected with a 4xx status has its entity's
\* syncStatus set to "error" at once and is not pushed again by a later cycle.
C12_PermanentNotRetried ==
  /\ \A n \in Permanent :
       LET e == sync_queue[n].payload.id IN
         e \in DOMAIN organizations => organizations[e].syncStatus = "error"
  /\ \A s \in Slots :
       runs[s].pc = "api" => item(s).error # Rejected4xx


\* C13: a create that is pushed again after the remote API already holds the
\* resource is treated as done: the duplicate-id answer is not recorded as an
\* error on the item (and the remote keeps one resource per id).
C13_DuplicateCreateIsSuccess ==
  /\ \A n \in 1..Len(sync_queue) :
       sync_queue[n].action = "create" => sync_queue[n].error # Rejected4xx
  /\ \A s \in Slots :
       runs[s].pc = "queueUpdate" /\ item(s).action = "create"
         => runs[s].error # Rejected4xx


\* Activation s waits for the answer to an update whose remote copy is newer
\* than the baseline of the update.
Conflicting(s) ==
  /\ runs[s].pc = "api"
  /\ item(s).action = "update"
  /\ item(s).payload.id \in remoteNewer

Rewritten(e) ==
  /\ e \in DOMAIN organizations
  /\ e \in DOMAIN organizations'
  /\ organizations'[e].lastModified # organizations[e].lastModified

\* The queue item this step appends, given that it appends one.
Enqueued == sync_queue'[Len(sync_queue')]

RepositoryStep ==
  \/ mutations' # mutations
  \/ clock' # clock
  \/ nextId' # nextId
  \/ returned' \in {"getAll", "NotFound"}

Failed == {n \in 1..Len(sync_queue) :
             /\ sync_queue[n].error # ""
             /\ sync_queue[n].id \notin InHand}

\* C19: a failure inside a background cycle, of the remote call or of a
\* write to the Local Store or the queue, does not leave processQueue as a
\* rejection; it is recorded on the queue item, and the entity of an item
\* with a recorded failure does not show as synced.
C19_FailureStaysInside ==
  /\ returned # "rejected"
  /\ \A s \in Slots :
       runs[s].pc = "queueUpdate" => item(s).id \in QueueIds(sync_queue)
  /\ \A n \in Failed :
       LET e == sync_queue[n].payload.id IN
         e \in DOMAIN organizations => organizations[e].syncStatus # "synced"


\* C20: a remote call is issued only while navigator.onLine is true, also
\* when connectivity is lost in the middle of a cycle.
C20_NoCallOffline ==
  [][\A s \in Slots :
       runs'[s].pc = "api" /\ runs'[s].i # runs[s].i => onLine]_vars


\* The queue holds an item for the entity of the item activation s is
\* handling that was enqueued after that item.
LaterItem(s) ==
  \E n \in 1..Len(sync_queue) :
    /\ sync_queue[n].payload.id = item(s).payload.id
    /\ sync_queue[n].id > item(s).id

\* C21: after a successful push the status write sets the entity to "synced"
\* only when the queue holds no later item for that entity; with a later
\* item, also one enqueued while the push was in flight, the entity is not
\* set to "synced".
C21_SyncedOnlyWithoutLaterItem ==
  [][\A s \in Slots :
       /\ runs[s].pc = "repoUpdate"
       /\ runs'[s].pc = "queueDelete"
       /\ item(s).payload.id \in DOMAIN organizations
       /\ LaterItem(s)
       => organizations'[item(s).payload.id].syncStatus # "synced"]_vars


\* Connectivity is there and no push is being handled as a failure.
Healthy == onLine /\ \A s \in Slots : runs[s].pc # "queueUpdate"

InFlight == {s \in Slots : runs[s].pc = "api"}

\* C23: no two remote calls are in flight for the same entity at any time.
C23_OneCallPerEntity ==
  \A s, t \in InFlight :
    item(s).payload.id = item(t).payload.id => s = t

\* A call is in flight while the next item of the batch, for the same entity,
\* waits for it to be answered.
C23_Witness ==
  \E s \in InFlight :
    /\ runs[s].i < Len(runs[s].queueItems)
    /\ runs[s].queueItems[runs[s].i + 1].payload.id = item(s).payload.id
    /\ runs[s].queueItems[runs[s].i + 1].id \notin sent


\* Every queue id the engine has read, sent or seen answered so far, and every
\* id in the queue.
KnownIds ==
  QueueIds(sync_queue) \cup sent \cup {a.id : a \in acked}
    \cup UNION {QueueIds(runs[s].queueItems) : s \in Slots}

\* C24: the items of the queue, and of every batch read from it, are in
\* strictly ascending id order, and an enqueue appends one item whose id is
\* greater than every id assigned before, removed ones included.
C24_IdsIncrease ==
  [][/\ Ascending(IdsOf(sync_queue'))
     /\ \A s \in Slots : Ascending(IdsOf(runs'[s].queueItems))
     /\ Len(sync_queue') > Len(sync_queue)
         => /\ Len(sync_queue') = Len(sync_queue) + 1
            /\ SubSeq(sync_queue', 1, Len(sync_queue)) = sync_queue
            /\ \A q \in KnownIds : q < sync_queue'[Len(sync_queue')].id]_vars

\* An item has been pushed and removed, and an item enqueued while a later
\* cycle is running sits in the queue behind the batch of that cycle.
C24_Witness ==
  \E s \in Slots, n \in 1..Len(sync_queue) :
    /\ runs[s].pc = "api"
    /\ sync_queue[n].id \notin QueueIds(runs[s].queueItems)
    /\ \E a \in acked :
         /\ a.id \notin QueueIds(sync_queue)
         /\ a.id \notin QueueIds(runs[s].queueItems)
         /\ a.id < sync_queue[n].id


C26_FlagLoweredOnExit == isSyncing => ActiveRuns # {}


\* Activation s completes the status write of its item in this step.
StatusWritten(s) == runs[s].pc = "repoUpdate" /\ runs'[s].pc = "queueDelete"

\* C27: the status write after a successful push changes nothing but the
\* syncStatus of the entity of the pushed item: every other field of that
\* entity, every other entity and the set of stored entities stay as they
\* are, whatever a repository update wrote while the push was in flight.
C27_StatusWriteFrame ==
  [][\A s \in Slots :
       StatusWritten(s)
         => /\ DOMAIN organizations' = DOMAIN organizations
            /\ \A e \in DOMAIN organizations :
                 organizations'[e] =
                   IF e = item(s).payload.id
                     THEN [organizations[e] EXCEPT !.syncStatus = "synced"]
                     ELSE organizations[e]]_vars

\* The status write has been made for a create whose entity was updated while
\* the create was being pushed: the entity keeps the newer name and
\* lastModified.
C27_Witness ==
  \E s \in Slots :
    LET e == item(s).payload.id IN
      /\ runs[s].pc = "queueDelete"
      /\ item(s).action = "create"
      /\ e \in DOMAIN organizations
      /\ organizations[e].syncStatus = "synced"
      /\ organizations[e].name # item(s).payload.name
      /\ organizations[e].lastModified > item(s).payload.lastModified
      /\ \E n \in 1..Len(sync_queue) :
           /\ sync_queue[n].payload.id = e
           /\ sync_queue[n].id \notin QueueIds(runs[s].queueItems)


\* The ids of the items of the batch of frame r up to its current one.
BatchIds(r) == SubSeq(IdsOf(r.queueItems), 1, r.i)

Late(s) ==
  {n \in 1..Len(sync_queue) :
     /\ runs[s].pc \notin {"idle", "toArray"}
     /\ sync_queue[n].id \notin QueueIds(runs[s].queueItems)}

\* C29: a cycle handles only the items it read at its start: a row added to
\* the queue while the cycle runs is not in its batch, no call is issued for
\* it during the cycle, and no step taken while the cycle runs removes it.
C29_OnlyTheBatch ==
  [][\A s \in Slots : \A n \in Late(s) :
       /\ sync_queue[n].id \notin sent'
       /\ \E k \in 1..Len(sync_queue') : sync_queue'[k] = sync_queue[n]
       /\ Active(s)' => sync_queue[n].id \notin QueueIds(runs'[s].queueItems)]_vars

\* A cycle is at the last item of its batch and a row enqueued in the
\* meantime waits in the queue, not pushed.
C29_Witness ==
  \E s \in Slots :
    /\ runs[s].pc = "queueDelete"
    /\ runs[s].i = Len(runs[s].queueItems)
    /\ \E n \in Late(s) : sync_queue[n].id \notin sent


\* C30: at a protected location the page is rendered only when the
\* authentication has finished loading and isAuthenticated is true; while it
\* is loading only the loader is rendered, so nothing redirects; when it is
\* done and the user is not authenticated the guard redirects to /login. Both
\* texts of ProtectedRoute agree on every input.
C30_ProtectedRouteGuards ==
  /\ \A l, a \in BOOLEAN :
       /\ ProtectedRoute(l, a) = ProtectedRouteTernary(l, a)
       /\ ProtectedRoute(l, a) = Outlet <=> ~l /\ a
  /\ rendered = AppRoutes(location, isLoading, isAuthenticated)
  /\ location \in Protected =>
       /\ rendered = Page(location) <=> ~isLoading /\ isAuthenticated
       /\ isLoading => rendered = Loader /\ ~ENABLED redirect
       /\ ~isLoading /\ ~isAuthenticated => rendered = Navigate(LOGIN)
  /\ rendered.element = "Page" /\ rendered.to \in Protected =>
       ~isLoading /\ isAuthenticated /\ session

\* A signed-in user, whose authentication has finished loading, has gone
\* from /login to a protected page and sees it.
C30_Witness ==
  /\ rendered = Page(DASHBOARD)
  /\ isAuthenticated
  /\ Len(history) > 1
  /\ history[1] = LOGIN

====
